---- MODULE Spec2Model ----
(***************************************************************************)
(* File storage service: HTTP handlers (internal/handler), the file       *)
(* service that orchestrates the object store and the metadata store      *)
(* (internal/service/file_service.go) and the two repositories            *)
(* (internal/repository).  Every request runs in its own goroutine; each  *)
(* store call and each file-system call is one atomic step.               *)
(***************************************************************************)
EXTENDS Integers, Sequences, FiniteSets, TLC

\* ------------------------------------------------------------------ bounds
NProcs == 2          \* concurrent request goroutines
MaxIds == 2          \* identifiers uuid.New can hand out
MaxFaults == 1       \* injected store / file-system failures
MaxReqs == 3         \* requests served in one behaviour

Procs == 1..NProcs
Ids == 1..MaxIds

\* ------------------------------------------------------------ plain values
Nil == "nil"
NoDoc == [none |-> TRUE]
NoFile == [missing |-> TRUE]
BadId == 0            \* a path parameter uuid.Parse rejects
Bucket == "user-uploads"

\* error values; ErrorsIs compares identities, none of them wraps another
ErrNoDocuments == "mongo.ErrNoDocuments"
ErrDocumentNotFound == "repository.ErrDocumentNotFound"
ErrFileNotFound == "service.ErrFileNotFound"
ErrStorageNotFound == "repository.ErrFileNotFound"
ErrUpload == "upload error"
ErrDelete == "delete error"
ErrMongo == "mongo error"
ErrIO == "io error"

ErrorsIs(err, target) == err = target

\* ------------------------------------------------------- names and content
\* A filename is a sequence of tokens, "." being the dot.
Dot == "."

DotPositions(name) == {i \in 1..Len(name) : name[i] = Dot}

Max(S) == CHOOSE m \in S : \A x \in S : x <= m

\* filepath.Ext: the suffix starting at the last dot, empty without a dot
Ext(name) ==
    IF DotPositions(name) = {} THEN <<>>
    ELSE SubSeq(name, Max(DotPositions(name)), Len(name))

HasSuffix(s, suf) ==
    /\ Len(suf) <= Len(s)
    /\ SubSeq(s, Len(s) - Len(suf) + 1, Len(s)) = suf

\* strings.TrimSuffix
TrimSuffix(s, suf) ==
    IF HasSuffix(s, suf) THEN SubSeq(s, 1, Len(s) - Len(suf)) ELSE s

ToLowerTok(t) ==
    CASE t = "JPG" -> "jpg"
      [] t = "PNG" -> "png"
      [] OTHER -> t

\* strings.ToLower
ToLower(s) == [i \in 1..Len(s) |-> ToLowerTok(s[i])]

\* http.DetectContentType on the first bytes of the content
DetectContentType(data) ==
    CASE data = "png-bytes" -> "image/png"
      [] data = "jpeg-bytes" -> "image/jpeg"
      [] data = "mp4-bytes" -> "video/mp4"
      [] data = "text-bytes" -> "text/plain; charset=utf-8"
      [] OTHER -> "application/octet-stream"

\* detectContentType: reading an empty file fails with io.EOF
SniffFails(file) == file.Data = "empty"

allowedExtensions ==
    { <<Dot, "jpg">>, <<Dot, "jpeg">>, <<Dot, "png">>, <<Dot, "mp4">>,
      <<Dot, "mov">>, <<Dot, "avi">>, <<Dot, "mkv">> }

allowedTypes ==
    { "image/jpeg", "image/png", "video/mp4", "video/quicktime",
      "video/x-msvideo", "video/x-matroska" }

replaceAllowedTypes == { "image/jpeg", "image/png", "video/mp4" }

\* multipart.FileHeader
FileHeader(name, size, ctype, data) ==
    [Filename |-> name, Size |-> size, ContentType |-> ctype, Data |-> data]

PhotoPng == FileHeader(<<"photo", Dot, "png">>, 3, "image/png", "png-bytes")
PicJpg == FileHeader(<<"pic", Dot, "jpg">>, 5, "image/jpeg", "jpeg-bytes")
NotesTxt == FileHeader(<<"notes", Dot, "txt">>, 2, "image/png", "png-bytes")
FakeJPG == FileHeader(<<"fake", Dot, "JPG">>, 2, "image/jpeg", "text-bytes")

\* the files a client sends
Files == {PhotoPng, PicJpg, NotesTxt, FakeJPG}

\* ------------------------------------------------------------------ state
VARIABLES
    meta,      \* MongoDB collection "files": _id -> document or NoDoc
    blobs,     \* MinIO bucket: object name -> [Data, ContentType]
    tmp,       \* os.TempDir(): path -> bytes of the staging file
    nextId,    \* next identifier uuid.New returns
    req,       \* per goroutine: the request being served and its locals
    faults,    \* failures injected so far
    served,    \* requests accepted so far
    now,       \* the clock: readings of time.Now so far
    written,   \* history: id -> file and url of the last successful Upload or
               \* Replace, and (first) those of the Upload
    changed,   \* history: ids whose record a Replace or Delete has written
    noSuchKey  \* history: some RemoveObject was answered NoSuchKey

vars ==
    <<meta, blobs, tmp, nextId, req, faults, served, now, written, changed,
      noSuchKey>>

\* models.FileMetadata
FileMetadata(id, name, size, ctype, date, url) ==
    [ID |-> id, OriginalName |-> name, FileSize |-> size, ContentType |-> ctype,
     BucketName |-> Bucket, UploadDate |-> date, URL |-> url]

\* object name: fileID + ext
ObjectName(id, ext) == [id |-> id, ext |-> ext]

NoKey == ObjectName(0, <<>>)

\* filepath.Join(os.TempDir(), objectName)
LocalPath(objectName) == objectName

\* fmt.Sprintf("http://%s/%s/%s", host, bucket, objectName)
PublicURL(objectName) == [bucket |-> Bucket, object |-> objectName]

\* map update with a possibly new key
Put(f, k, v) == [x \in DOMAIN f \cup {k} |-> IF x = k THEN v ELSE f[x]]

\* map without a key
Drop(f, k) == [x \in DOMAIN f \ {k} |-> f[x]]

NoURL == PublicURL(NoKey)

Empty == [k \in {} |-> Nil]

\* a goroutine with no request: the locals of the handler and of the service
\* call it makes, the log of the store and file-system calls of the request,
\* and the response written
Idle ==
    [pc |-> "idle", op |-> "none", auth |-> TRUE, id |-> 0, file |-> NoFile,
     objectName |-> NoKey, localPath |-> NoKey, url |-> NoURL, date |-> 0,
     sniffed |-> FALSE, fresh |-> FALSE, calls |-> <<>>, err |-> Nil,
     status |-> 0, doc |-> NoDoc, cancelled |-> FALSE]

Init ==
    /\ meta = [i \in Ids |-> NoDoc]
    /\ blobs = Empty
    /\ tmp = Empty
    /\ nextId = 1
    /\ req = [p \in Procs |-> Idle]
    /\ faults = 0
    /\ served = 0
    /\ now = 0
    /\ written = [i \in Ids |-> NoDoc]
    /\ changed = {}
    /\ noSuchKey = FALSE

\* ------------------------------------------------------------ repositories
\* MongoRepository.SaveMetadata: InsertOne, a duplicate _id is an error
SaveMetadata(m, metadata, fail) ==
    IF fail \/ m[metadata.ID] # NoDoc
    THEN [err |-> ErrMongo, meta |-> m]
    ELSE [err |-> Nil, meta |-> [m EXCEPT ![metadata.ID] = metadata]]

\* MongoRepository.GetMetadata: FindOne, no document becomes ErrDocumentNotFound
GetMetadata(m, fileID, fail) ==
    IF fail THEN [err |-> ErrMongo, doc |-> NoDoc]
    ELSE IF m[fileID] = NoDoc THEN [err |-> ErrDocumentNotFound, doc |-> NoDoc]
    ELSE [err |-> Nil, doc |-> m[fileID]]

\* DeleteMetadata with an empty filter: every document is deleted
DeleteMetadataNoFilter(m, fileID, fail) ==
    IF fail THEN [err |-> ErrMongo, meta |-> m]
    ELSE IF m[fileID] = NoDoc THEN [err |-> ErrDocumentNotFound, meta |-> m]
    ELSE [err |-> Nil, meta |-> [i \in DOMAIN m |-> NoDoc]]

\* MongoRepository.DeleteMetadata: DeleteOne, DeletedCount 0 is ErrDocumentNotFound
DeleteMetadata(m, fileID, fail) ==
    IF fail THEN [err |-> ErrMongo, meta |-> m]
    ELSE IF m[fileID] = NoDoc THEN [err |-> ErrDocumentNotFound, meta |-> m]
    ELSE [err |-> Nil, meta |-> [m EXCEPT ![fileID] = NoDoc]]

\* UpdateMetadata as an upsert: a missing document is created
UpdateMetadataUpsert(m, fileID, metadata, fail) ==
    IF fail THEN [err |-> ErrMongo, meta |-> m]
    ELSE [err |-> Nil, meta |-> [m EXCEPT ![fileID] = metadata]]

\* MongoRepository.UpdateMetadata: FindOneAndUpdate with $set of every field
\* but _id
UpdateMetadata(m, fileID, metadata, fail) ==
    IF fail THEN [err |-> ErrMongo, meta |-> m]
    ELSE IF m[fileID] = NoDoc THEN [err |-> ErrDocumentNotFound, meta |-> m]
    ELSE [err |-> Nil,
          meta |-> [m EXCEPT ![fileID] =
                      [metadata EXCEPT !.ID = m[fileID].ID]]]

\* MinioRepository.UploadFile: FPutObject reads the local file and stores it
MinioUploadFile(b, t, objectName, filePath, contentType, fail) ==
    IF fail \/ filePath \notin DOMAIN t
    THEN [err |-> ErrUpload, url |-> NoURL, blobs |-> b]
    ELSE [err |-> Nil, url |-> PublicURL(objectName),
          blobs |-> Put(b, objectName,
                        [Data |-> t[filePath], ContentType |-> contentType])]

\* the answers RemoveObject can give
RemoveAnswers(b, objectName) ==
    IF objectName \in DOMAIN b THEN {"ok", "error"}
    ELSE {"ok", "NoSuchKey", "error"}

\* MinioRepository.DeleteFile: RemoveObject; NoSuchKey becomes ErrFileNotFound
MinioDeleteFile(b, objectName, answer) ==
    CASE answer = "NoSuchKey" -> [err |-> ErrStorageNotFound, blobs |-> b]
      [] answer = "error" -> [err |-> ErrDelete, blobs |-> b]
      [] OTHER -> [err |-> Nil, blobs |-> Drop(b, objectName)]

\* saveUploadedFile: Open, MkdirAll, Create, Copy
SaveUploadedFile(t, file, dst, outcome) ==
    CASE outcome = "nofile" -> [err |-> ErrIO, tmp |-> t]
      [] outcome = "partial" -> [err |-> ErrIO, tmp |-> Put(t, dst, "partial")]
      [] OTHER -> [err |-> Nil, tmp |-> Put(t, dst, file.Data)]

\* ----------------------------------------------------------------- helpers
MayFail(fail) == fail => faults < MaxFaults

Charge(fail) == IF fail THEN faults + 1 ELSE faults

\* the request context is cancelled (client gone, timeout) before or during
\* the store call about to be made; a cancellation counts as one failure
MayCancel(r, cancel) == cancel => (~r.cancelled /\ faults < MaxFaults)

\* the request as the store call sees it
Ctx(r, cancel) == [r EXCEPT !.cancelled = @ \/ cancel]

\* a call that takes the request context fails once the context is cancelled
CtxMayFail(r, fail) == IF r.cancelled THEN fail ELSE MayFail(fail)

CtxCharge(r, fail, cancel) ==
    IF cancel THEN faults + 1 ELSE IF r.cancelled THEN faults ELSE Charge(fail)

CanStart(p) == req[p].pc \in {"idle", "done"} /\ served < MaxReqs

Call(name, id, obj, res) == [call |-> name, id |-> id, obj |-> obj, res |-> res]

Log(r, c) == [r EXCEPT !.calls = Append(@, c)]

\* the handler writes the response and returns
Respond(r, status) == [r EXCEPT !.pc = "done", !.status = status]

\* Unauthorized without the abort: the request is answered as if served
UnauthorizedPasses(op) == Respond([Idle EXCEPT !.op = op, !.auth = FALSE], 200)

\* apiKeyAuth aborts before the handler runs: nothing of the request is read
Unauthorized(op) == Respond([Idle EXCEPT !.op = op, !.auth = FALSE], 401)

\* ------------------------------------------------------------------ upload
\* UploadGate without the check of the sniffed type
UploadGateNoTypeCheck(file) ==
    IF file = NoFile THEN [status |-> 400, sniffed |-> FALSE]
    ELSE IF ToLower(Ext(file.Filename)) \notin allowedExtensions
    THEN [status |-> 400, sniffed |-> FALSE]
    ELSE IF SniffFails(file) THEN [status |-> 400, sniffed |-> TRUE]
    ELSE [status |-> 0, sniffed |-> TRUE]

\* FileHandler.UploadFile up to the service call: 0 admits, otherwise the
\* status of the rejection; sniffed tells whether detectContentType ran
UploadGate(file) ==
    IF file = NoFile THEN [status |-> 400, sniffed |-> FALSE]
    ELSE IF ToLower(Ext(file.Filename)) \notin allowedExtensions
    THEN [status |-> 400, sniffed |-> FALSE]
    ELSE IF SniffFails(file) THEN [status |-> 400, sniffed |-> TRUE]
    ELSE IF DetectContentType(file.Data) \notin allowedTypes
    THEN [status |-> 400, sniffed |-> TRUE]
    ELSE [status |-> 0, sniffed |-> TRUE]

\* UploadObjectName without the extension: the identifier alone is the key
UploadObjectNameNoExt(fileID, file) == ObjectName(fileID, <<>>)

\* objectName := fileID + filepath.Ext(file.Filename)
UploadObjectName(fileID, file) == ObjectName(fileID, Ext(file.Filename))

\* NewMetadata keeping the whole filename as OriginalName
NewMetadataFullName(fileID, file, date, url) ==
    FileMetadata(fileID, file.Filename, file.Size, file.ContentType, date, url)

\* metadata built from the file header
NewMetadata(fileID, file, date, url) ==
    FileMetadata(fileID, TrimSuffix(file.Filename, Ext(file.Filename)),
                 file.Size, file.ContentType, date, url)

\* POST /api/v1/upload: middleware, handler checks, uuid.New
UploadReq(p, auth, file) ==
    /\ CanStart(p)
    /\ served' = served + 1
    /\ LET r == [Idle EXCEPT !.op = "upload", !.file = file]
           g == UploadGate(file)
       IN  IF ~auth
           THEN req' = [req EXCEPT ![p] = Unauthorized("upload")] /\ nextId' = nextId
           ELSE IF g.status # 0
           THEN /\ req' = [req EXCEPT ![p] =
                             Respond([r EXCEPT !.sniffed = g.sniffed], g.status)]
                /\ nextId' = nextId
           ELSE /\ nextId <= MaxIds
                /\ nextId' = nextId + 1
                /\ req' = [req EXCEPT ![p] =
                             [r EXCEPT !.pc = "u_save", !.sniffed = g.sniffed,
                                       !.id = nextId,
                                       !.objectName = UploadObjectName(nextId, file),
                                       !.localPath =
                                           LocalPath(UploadObjectName(nextId, file))]]
    /\ UNCHANGED <<meta, blobs, tmp, faults, written, changed, noSuchKey, now>>

\* FileService.UploadFile: saveUploadedFile; the deferred os.Remove is
\* registered only when it succeeds
UploadSave(p) ==
    /\ req[p].pc = "u_save"
    /\ \E outcome \in {"ok", "nofile", "partial"} :
         LET r == req[p]
             fail == outcome # "ok"
             res == SaveUploadedFile(tmp, r.file, r.localPath, outcome)
             r1 == Log(r, Call("stage", r.id, r.localPath, res.err))
         IN  /\ MayFail(fail)
             /\ faults' = Charge(fail)
             /\ tmp' = res.tmp
             /\ req' = [req EXCEPT ![p] =
                          IF res.err # Nil
                          THEN Respond([r1 EXCEPT !.err = res.err], 500)
                          ELSE [r1 EXCEPT !.pc = "u_put"]]
    /\ UNCHANGED <<meta, blobs, nextId, served, written, changed, noSuchKey,
                 now>>

\* UploadPut going on to the metadata insert when the put failed
UploadPutIgnoringError(p) ==
    /\ req[p].pc = "u_put"
    /\ \E fail \in BOOLEAN, cancel \in BOOLEAN :
         LET r == Ctx(req[p], cancel)
             res == MinioUploadFile(blobs, tmp, r.objectName, r.localPath,
                                    r.file.ContentType, fail)
             r1 == Log(r, Call("put", r.id, r.objectName, res.err))
         IN  /\ MayCancel(req[p], cancel) /\ CtxMayFail(r, fail)
             /\ faults' = CtxCharge(r, fail, cancel)
             /\ blobs' = res.blobs
             /\ tmp' = tmp
             /\ now' = now + 1
             /\ req' = [req EXCEPT ![p] =
                          [r1 EXCEPT !.pc = "u_insert", !.url = res.url,
                                     !.date = now + 1]]
    /\ UNCHANGED <<meta, nextId, served, written, changed, noSuchKey>>

\* FileService.UploadFile: minioRepo.UploadFile; on error return it
UploadPut(p) ==
    /\ req[p].pc = "u_put"
    /\ \E fail \in BOOLEAN, cancel \in BOOLEAN :
         LET r == Ctx(req[p], cancel)
             res == MinioUploadFile(blobs, tmp, r.objectName, r.localPath,
                                    r.file.ContentType, fail)
             r1 == Log(r, Call("put", r.id, r.objectName, res.err))
         IN  /\ MayCancel(req[p], cancel) /\ CtxMayFail(r, fail)
             /\ faults' = CtxCharge(r, fail, cancel)
             /\ blobs' = res.blobs
             /\ IF res.err # Nil
                THEN /\ tmp' = Drop(tmp, r.localPath)
                     /\ now' = now
                     /\ req' = [req EXCEPT ![p] =
                                  Respond([r1 EXCEPT !.err = res.err], 500)]
                ELSE /\ tmp' = tmp
                     /\ now' = now + 1
                     /\ req' = [req EXCEPT ![p] =
                                  [r1 EXCEPT !.pc = "u_insert", !.url = res.url,
                                             !.date = now + 1]]
    /\ UNCHANGED <<meta, nextId, served, written, changed, noSuchKey>>

\* FileService.UploadFile: mongoRepo.SaveMetadata; success returns the url
UploadInsert(p) ==
    /\ req[p].pc = "u_insert"
    /\ \E fail \in BOOLEAN, cancel \in BOOLEAN :
         LET r == Ctx(req[p], cancel)
             metadata == NewMetadata(r.id, r.file, r.date, r.url)
             res == SaveMetadata(meta, metadata, fail)
             r1 == Log(r, Call("insert", r.id, NoKey, res.err))
         IN  /\ MayCancel(req[p], cancel) /\ CtxMayFail(r, fail)
             /\ faults' = CtxCharge(r, fail, cancel)
             /\ meta' = res.meta
             /\ IF res.err # Nil
                THEN /\ req' = [req EXCEPT ![p] =
                                  [r1 EXCEPT !.pc = "u_rollback", !.err = res.err]]
                     /\ UNCHANGED <<tmp, written>>
                ELSE /\ tmp' = Drop(tmp, r.localPath)
                     /\ written' = [written EXCEPT ![r.id] =
                                      [file |-> r.file, url |-> r.url,
                                       first |-> [file |-> r.file, url |-> r.url]]]
                     /\ req' = [req EXCEPT ![p] = Respond(r1, 200)]
    /\ UNCHANGED <<blobs, nextId, served, changed, noSuchKey, now>>

\* UploadRollbackName computed from the stored name, as Delete does
UploadRollbackNameFromStem(r) ==
    ObjectName(r.id, Ext(TrimSuffix(r.file.Filename, Ext(r.file.Filename))))

\* the key the rollback of Upload deletes
UploadRollbackName(r) == r.objectName

\* UploadRollback returning the error of the rollback when it fails
UploadRollbackEscalating(p) ==
    /\ req[p].pc = "u_rollback"
    /\ \E cancel \in BOOLEAN :
         LET r == Ctx(req[p], cancel)
             name == UploadRollbackName(r)
         IN  \E answer \in RemoveAnswers(blobs, name) :
               LET fail == answer = "error"
                   res == MinioDeleteFile(blobs, name, answer)
                   r1 == Log(r, Call("remove", r.id, name, res.err))
               IN  /\ MayCancel(req[p], cancel) /\ CtxMayFail(r, fail)
                   /\ faults' = CtxCharge(r, fail, cancel)
                   /\ blobs' = res.blobs
                   /\ noSuchKey' = (noSuchKey \/ answer = "NoSuchKey")
                   /\ tmp' = Drop(tmp, r.localPath)
                   /\ req' = [req EXCEPT ![p] =
                                Respond([r1 EXCEPT !.err =
                                           IF res.err # Nil THEN res.err ELSE @],
                                        500)]
    /\ UNCHANGED <<meta, nextId, served, written, changed, now>>

\* FileService.UploadFile: rollback after a failed SaveMetadata, its result
\* ignored; the metadata error is returned
UploadRollback(p) ==
    /\ req[p].pc = "u_rollback"
    /\ \E cancel \in BOOLEAN :
         LET r == Ctx(req[p], cancel)
             name == UploadRollbackName(r)
         IN  \E answer \in RemoveAnswers(blobs, name) :
               LET fail == answer = "error"
                   res == MinioDeleteFile(blobs, name, answer)
                   r1 == Log(r, Call("remove", r.id, name, res.err))
               IN  /\ MayCancel(req[p], cancel) /\ CtxMayFail(r, fail)
                   /\ faults' = CtxCharge(r, fail, cancel)
                   /\ blobs' = res.blobs
                   /\ noSuchKey' = (noSuchKey \/ answer = "NoSuchKey")
                   /\ tmp' = Drop(tmp, r.localPath)
                   /\ req' = [req EXCEPT ![p] = Respond(r1, 500)]
    /\ UNCHANGED <<meta, nextId, served, written, changed, now>>

\* ------------------------------------------------------ service, handlers
\* FileService.DeleteFile / ReplaceFile: the error of the record lookup
LookupErr(err) == IF ErrorsIs(err, ErrNoDocuments) THEN ErrFileNotFound ELSE err

\* FileHandler.DeleteFile / ReplaceFile / GetFileMetadata: status for the
\* service's error
StatusOf(err) ==
    IF err = Nil THEN 200 ELSE IF err = ErrFileNotFound THEN 404 ELSE 500

\* uuid.Parse(fileID)
ValidUUID(id) == id # BadId

\* the object name Delete and Replace compute from the stored record:
\* fileID + filepath.Ext(metadata.OriginalName)
StoredObjectName(fileID, metadata) ==
    ObjectName(fileID, Ext(metadata.OriginalName))

\* the service returns err and the handler answers
Return(r, err) == Respond([r EXCEPT !.err = err], StatusOf(err))

\* --------------------------------------------------------------------- get
\* GET /api/v1/files/:id: middleware, uuid.Parse
GetReq(p, auth, id) ==
    /\ CanStart(p)
    /\ served' = served + 1
    /\ LET r == [Idle EXCEPT !.op = "get", !.id = id]
       IN  req' = [req EXCEPT ![p] =
                     IF ~auth THEN Unauthorized("get")
                     ELSE IF ~ValidUUID(id) THEN Respond(r, 400)
                     ELSE [r EXCEPT !.pc = "g_find"]]
    /\ UNCHANGED <<meta, blobs, tmp, nextId, faults, written, changed,
                 noSuchKey, now>>

\* GetFind that also resets the date of the record it reads
GetFindStamping(p) ==
    /\ req[p].pc = "g_find"
    /\ \E fail \in BOOLEAN, cancel \in BOOLEAN :
         LET r == Ctx(req[p], cancel)
             res == GetMetadata(meta, r.id, fail)
             r1 == Log(r, Call("find", r.id, NoKey, res.err))
         IN  /\ MayCancel(req[p], cancel) /\ CtxMayFail(r, fail)
             /\ faults' = CtxCharge(r, fail, cancel)
             /\ meta' = [i \in Ids |->
                          IF i = r.id /\ meta[i] # NoDoc
                          THEN [meta[i] EXCEPT !.UploadDate = 0] ELSE meta[i]]
             /\ req' = [req EXCEPT ![p] =
                          Return([r1 EXCEPT !.doc = res.doc,
                                            !.fresh = r.id \notin changed],
                                 res.err)]
    /\ UNCHANGED <<blobs, tmp, nextId, served, written, changed,
                 noSuchKey, now>>

\* FileService.GetFileMetadata: mongoRepo.GetMetadata, error passed through;
\* fresh records that no Replace or Delete had written the record before
GetFind(p) ==
    /\ req[p].pc = "g_find"
    /\ \E fail \in BOOLEAN, cancel \in BOOLEAN :
         LET r == Ctx(req[p], cancel)
             res == GetMetadata(meta, r.id, fail)
             r1 == Log(r, Call("find", r.id, NoKey, res.err))
         IN  /\ MayCancel(req[p], cancel) /\ CtxMayFail(r, fail)
             /\ faults' = CtxCharge(r, fail, cancel)
             /\ req' = [req EXCEPT ![p] =
                          Return([r1 EXCEPT !.doc = res.doc,
                                            !.fresh = r.id \notin changed],
                                 res.err)]
    /\ UNCHANGED <<meta, blobs, tmp, nextId, served, written, changed,
                 noSuchKey, now>>

\* ------------------------------------------------------------------ delete
\* DELETE /api/v1/files/:id: middleware, uuid.Parse
DeleteReq(p, auth, id) ==
    /\ CanStart(p)
    /\ served' = served + 1
    /\ LET r == [Idle EXCEPT !.op = "delete", !.id = id]
       IN  req' = [req EXCEPT ![p] =
                     IF ~auth THEN Unauthorized("delete")
                     ELSE IF ~ValidUUID(id) THEN Respond(r, 400)
                     ELSE [r EXCEPT !.pc = "d_find"]]
    /\ UNCHANGED <<meta, blobs, tmp, nextId, faults, written, changed,
                 noSuchKey, now>>

\* FileService.DeleteFile: mongoRepo.GetMetadata
DeleteFind(p) ==
    /\ req[p].pc = "d_find"
    /\ \E fail \in BOOLEAN, cancel \in BOOLEAN :
         LET r == Ctx(req[p], cancel)
             res == GetMetadata(meta, r.id, fail)
             r1 == Log(r, Call("find", r.id, NoKey, res.err))
         IN  /\ MayCancel(req[p], cancel) /\ CtxMayFail(r, fail)
             /\ faults' = CtxCharge(r, fail, cancel)
             /\ req' = [req EXCEPT ![p] =
                          IF res.err # Nil THEN Return(r1, LookupErr(res.err))
                          ELSE [r1 EXCEPT !.pc = "d_remove", !.doc = res.doc,
                                          !.objectName =
                                              StoredObjectName(r.id, res.doc)]]
    /\ UNCHANGED <<meta, blobs, tmp, nextId, served, written, changed,
                 noSuchKey, now>>

\* DeleteRemove going on to the metadata delete when the blob delete failed
DeleteRemoveIgnoringError(p) ==
    /\ req[p].pc = "d_remove"
    /\ \E cancel \in BOOLEAN :
         LET r == Ctx(req[p], cancel)
         IN  \E answer \in RemoveAnswers(blobs, r.objectName) :
               LET fail == answer = "error"
                   res == MinioDeleteFile(blobs, r.objectName, answer)
                   r1 == Log(r, Call("remove", r.id, r.objectName, res.err))
               IN  /\ MayCancel(req[p], cancel) /\ CtxMayFail(r, fail)
                   /\ faults' = CtxCharge(r, fail, cancel)
                   /\ blobs' = res.blobs
                   /\ noSuchKey' = (noSuchKey \/ answer = "NoSuchKey")
                   /\ req' = [req EXCEPT ![p] = [r1 EXCEPT !.pc = "d_meta"]]
    /\ UNCHANGED <<meta, tmp, nextId, served, written, changed, now>>

\* FileService.DeleteFile: minioRepo.DeleteFile, any error is returned
DeleteRemove(p) ==
    /\ req[p].pc = "d_remove"
    /\ \E cancel \in BOOLEAN :
         LET r == Ctx(req[p], cancel)
         IN  \E answer \in RemoveAnswers(blobs, r.objectName) :
               LET fail == answer = "error"
                   res == MinioDeleteFile(blobs, r.objectName, answer)
                   r1 == Log(r, Call("remove", r.id, r.objectName, res.err))
               IN  /\ MayCancel(req[p], cancel) /\ CtxMayFail(r, fail)
                   /\ faults' = CtxCharge(r, fail, cancel)
                   /\ blobs' = res.blobs
                   /\ noSuchKey' = (noSuchKey \/ answer = "NoSuchKey")
                   /\ req' = [req EXCEPT ![p] =
                                IF res.err # Nil THEN Return(r1, res.err)
                                ELSE [r1 EXCEPT !.pc = "d_meta"]]
    /\ UNCHANGED <<meta, tmp, nextId, served, written, changed, now>>

\* FileService.DeleteFile: return mongoRepo.DeleteMetadata
DeleteMeta(p) ==
    /\ req[p].pc = "d_meta"
    /\ \E fail \in BOOLEAN, cancel \in BOOLEAN :
         LET r == Ctx(req[p], cancel)
             res == DeleteMetadata(meta, r.id, fail)
             r1 == Log(r, Call("delete", r.id, NoKey, res.err))
         IN  /\ MayCancel(req[p], cancel) /\ CtxMayFail(r, fail)
             /\ faults' = CtxCharge(r, fail, cancel)
             /\ meta' = res.meta
             /\ changed' = IF res.err = Nil THEN changed \cup {r.id} ELSE changed
             /\ req' = [req EXCEPT ![p] = Return(r1, res.err)]
    /\ UNCHANGED <<blobs, tmp, nextId, served, written, noSuchKey, now>>

\* ----------------------------------------------------------------- replace
\* FileHandler.ReplaceFile up to the service call
ReplaceGate(file) ==
    IF file = NoFile THEN [status |-> 400, sniffed |-> FALSE]
    ELSE IF SniffFails(file) THEN [status |-> 400, sniffed |-> TRUE]
    ELSE IF DetectContentType(file.Data) \notin replaceAllowedTypes
    THEN [status |-> 400, sniffed |-> TRUE]
    ELSE [status |-> 0, sniffed |-> TRUE]

\* PUT /api/v1/files/:id: middleware, uuid.Parse, handler checks
ReplaceReq(p, auth, id, file) ==
    /\ CanStart(p)
    /\ served' = served + 1
    /\ LET r == [Idle EXCEPT !.op = "replace", !.id = id, !.file = file]
           g == ReplaceGate(file)
       IN  req' = [req EXCEPT ![p] =
                     IF ~auth THEN Unauthorized("replace")
                     ELSE IF ~ValidUUID(id)
                     THEN Respond([Idle EXCEPT !.op = "replace", !.id = id], 400)
                     ELSE IF g.status # 0
                     THEN Respond([r EXCEPT !.sniffed = g.sniffed], g.status)
                     ELSE [r EXCEPT !.pc = "r_find", !.sniffed = g.sniffed]]
    /\ UNCHANGED <<meta, blobs, tmp, nextId, faults, written, changed,
                 noSuchKey, now>>

\* FileService.ReplaceFile: mongoRepo.GetMetadata
ReplaceFind(p) ==
    /\ req[p].pc = "r_find"
    /\ \E fail \in BOOLEAN, cancel \in BOOLEAN :
         LET r == Ctx(req[p], cancel)
             res == GetMetadata(meta, r.id, fail)
             r1 == Log(r, Call("find", r.id, NoKey, res.err))
         IN  /\ MayCancel(req[p], cancel) /\ CtxMayFail(r, fail)
             /\ faults' = CtxCharge(r, fail, cancel)
             /\ req' = [req EXCEPT ![p] =
                          IF res.err # Nil THEN Return(r1, LookupErr(res.err))
                          ELSE [r1 EXCEPT !.pc = "r_remove", !.doc = res.doc]]
    /\ UNCHANGED <<meta, blobs, tmp, nextId, served, written, changed,
                 noSuchKey, now>>

\* ReplaceRemove going on when the old blob could not be deleted
ReplaceRemoveIgnoringError(p) ==
    /\ req[p].pc = "r_remove"
    /\ \E cancel \in BOOLEAN :
         LET r == Ctx(req[p], cancel)
             oldObjectName == StoredObjectName(r.id, r.doc)
             newObjectName == UploadObjectName(r.id, r.file)
         IN  \E answer \in RemoveAnswers(blobs, oldObjectName) :
               LET fail == answer = "error"
                   res == MinioDeleteFile(blobs, oldObjectName, answer)
                   r1 == Log(r, Call("remove", r.id, oldObjectName, res.err))
               IN  /\ MayCancel(req[p], cancel) /\ CtxMayFail(r, fail)
                   /\ faults' = CtxCharge(r, fail, cancel)
                   /\ blobs' = res.blobs
                   /\ noSuchKey' = (noSuchKey \/ answer = "NoSuchKey")
                   /\ req' = [req EXCEPT ![p] =
                                [r1 EXCEPT !.pc = "r_save",
                                                !.objectName = newObjectName,
                                                !.localPath =
                                                    LocalPath(newObjectName)]]
    /\ UNCHANGED <<meta, tmp, nextId, served, written, changed, now>>

\* FileService.ReplaceFile: minioRepo.DeleteFile(oldObjectName), any error is
\* returned; then newObjectName and localPath
ReplaceRemove(p) ==
    /\ req[p].pc = "r_remove"
    /\ \E cancel \in BOOLEAN :
         LET r == Ctx(req[p], cancel)
             oldObjectName == StoredObjectName(r.id, r.doc)
             newObjectName == UploadObjectName(r.id, r.file)
         IN  \E answer \in RemoveAnswers(blobs, oldObjectName) :
               LET fail == answer = "error"
                   res == MinioDeleteFile(blobs, oldObjectName, answer)
                   r1 == Log(r, Call("remove", r.id, oldObjectName, res.err))
               IN  /\ MayCancel(req[p], cancel) /\ CtxMayFail(r, fail)
                   /\ faults' = CtxCharge(r, fail, cancel)
                   /\ blobs' = res.blobs
                   /\ noSuchKey' = (noSuchKey \/ answer = "NoSuchKey")
                   /\ req' = [req EXCEPT ![p] =
                                IF res.err # Nil THEN Return(r1, res.err)
                                ELSE [r1 EXCEPT !.pc = "r_save",
                                                !.objectName = newObjectName,
                                                !.localPath =
                                                    LocalPath(newObjectName)]]
    /\ UNCHANGED <<meta, tmp, nextId, served, written, changed, now>>

\* FileService.ReplaceFile: saveUploadedFile
ReplaceSave(p) ==
    /\ req[p].pc = "r_save"
    /\ \E outcome \in {"ok", "nofile", "partial"} :
         LET r == req[p]
             fail == outcome # "ok"
             res == SaveUploadedFile(tmp, r.file, r.localPath, outcome)
             r1 == Log(r, Call("stage", r.id, r.localPath, res.err))
         IN  /\ MayFail(fail)
             /\ faults' = Charge(fail)
             /\ tmp' = res.tmp
             /\ req' = [req EXCEPT ![p] =
                          IF res.err # Nil THEN Return(r1, res.err)
                          ELSE [r1 EXCEPT !.pc = "r_put"]]
    /\ UNCHANGED <<meta, blobs, nextId, served, written, changed, noSuchKey,
                 now>>

\* ReplacePut going on to the metadata update when the put failed
ReplacePutIgnoringError(p) ==
    /\ req[p].pc = "r_put"
    /\ \E fail \in BOOLEAN, cancel \in BOOLEAN :
         LET r == Ctx(req[p], cancel)
             res == MinioUploadFile(blobs, tmp, r.objectName, r.localPath,
                                    r.file.ContentType, fail)
             r1 == Log(r, Call("put", r.id, r.objectName, res.err))
         IN  /\ MayCancel(req[p], cancel) /\ CtxMayFail(r, fail)
             /\ faults' = CtxCharge(r, fail, cancel)
             /\ blobs' = res.blobs
             /\ tmp' = tmp
             /\ now' = now + 1
             /\ req' = [req EXCEPT ![p] =
                          [r1 EXCEPT !.pc = "r_update", !.url = res.url,
                                     !.date = now + 1]]
    /\ UNCHANGED <<meta, nextId, served, written, changed, noSuchKey>>

\* FileService.ReplaceFile: minioRepo.UploadFile(newObjectName)
ReplacePut(p) ==
    /\ req[p].pc = "r_put"
    /\ \E fail \in BOOLEAN, cancel \in BOOLEAN :
         LET r == Ctx(req[p], cancel)
             res == MinioUploadFile(blobs, tmp, r.objectName, r.localPath,
                                    r.file.ContentType, fail)
             r1 == Log(r, Call("put", r.id, r.objectName, res.err))
         IN  /\ MayCancel(req[p], cancel) /\ CtxMayFail(r, fail)
             /\ faults' = CtxCharge(r, fail, cancel)
             /\ blobs' = res.blobs
             /\ IF res.err # Nil
                THEN /\ tmp' = Drop(tmp, r.localPath)
                     /\ now' = now
                     /\ req' = [req EXCEPT ![p] = Return(r1, res.err)]
                ELSE /\ tmp' = tmp
                     /\ now' = now + 1
                     /\ req' = [req EXCEPT ![p] =
                                  [r1 EXCEPT !.pc = "r_update", !.url = res.url,
                                             !.date = now + 1]]
    /\ UNCHANGED <<meta, nextId, served, written, changed, noSuchKey>>

\* FileService.ReplaceFile: mongoRepo.UpdateMetadata; success returns the url
ReplaceUpdate(p) ==
    /\ req[p].pc = "r_update"
    /\ \E fail \in BOOLEAN, cancel \in BOOLEAN :
         LET r == Ctx(req[p], cancel)
             newMetadata == NewMetadata(r.id, r.file, r.date, r.url)
             res == UpdateMetadata(meta, r.id, newMetadata, fail)
             r1 == Log(r, Call("update", r.id, NoKey, res.err))
         IN  /\ MayCancel(req[p], cancel) /\ CtxMayFail(r, fail)
             /\ faults' = CtxCharge(r, fail, cancel)
             /\ meta' = res.meta
             /\ IF res.err # Nil
                THEN /\ req' = [req EXCEPT ![p] =
                                  [r1 EXCEPT !.pc = "r_rollback", !.err = res.err]]
                     /\ UNCHANGED <<tmp, changed, written>>
                ELSE /\ tmp' = Drop(tmp, r.localPath)
                     /\ changed' = changed \cup {r.id}
                     /\ written' = [written EXCEPT ![r.id] =
                                      [@ EXCEPT !.file = r.file, !.url = r.url]]
                     /\ req' = [req EXCEPT ![p] = Return(r1, Nil)]
    /\ UNCHANGED <<blobs, nextId, served, noSuchKey, now>>

\* ReplaceRollback deleting the name computed from the old record
ReplaceRollbackOldName(p) ==
    /\ req[p].pc = "r_rollback"
    /\ \E cancel \in BOOLEAN :
         LET r == Ctx(req[p], cancel)
             name == StoredObjectName(r.id, r.doc)
         IN  \E answer \in RemoveAnswers(blobs, name) :
               LET fail == answer = "error"
                   res == MinioDeleteFile(blobs, name, answer)
                   r1 == Log(r, Call("remove", r.id, name, res.err))
               IN  /\ MayCancel(req[p], cancel) /\ CtxMayFail(r, fail)
                   /\ faults' = CtxCharge(r, fail, cancel)
                   /\ blobs' = res.blobs
                   /\ noSuchKey' = (noSuchKey \/ answer = "NoSuchKey")
                   /\ tmp' = Drop(tmp, r.localPath)
                   /\ req' = [req EXCEPT ![p] = Return(r1, r.err)]
    /\ UNCHANGED <<meta, nextId, served, written, changed, now>>

\* FileService.ReplaceFile: rollback after a failed UpdateMetadata, its result
\* ignored; the metadata error is returned
ReplaceRollback(p) ==
    /\ req[p].pc = "r_rollback"
    /\ \E cancel \in BOOLEAN :
         LET r == Ctx(req[p], cancel)
         IN  \E answer \in RemoveAnswers(blobs, r.objectName) :
               LET fail == answer = "error"
                   res == MinioDeleteFile(blobs, r.objectName, answer)
                   r1 == Log(r, Call("remove", r.id, r.objectName, res.err))
               IN  /\ MayCancel(req[p], cancel) /\ CtxMayFail(r, fail)
                   /\ faults' = CtxCharge(r, fail, cancel)
                   /\ blobs' = res.blobs
                   /\ noSuchKey' = (noSuchKey \/ answer = "NoSuchKey")
                   /\ tmp' = Drop(tmp, r.localPath)
                   /\ req' = [req EXCEPT ![p] = Return(r1, r.err)]
    /\ UNCHANGED <<meta, nextId, served, written, changed, now>>

\* ------------------------------------------------------------ environment
\* GET /health: registered on the router, outside the /api/v1 group
HealthReq(p, auth) ==
    /\ CanStart(p)
    /\ served' = served + 1
    /\ req' = [req EXCEPT ![p] =
                 Respond([Idle EXCEPT !.op = "health", !.auth = auth], 200)]
    /\ UNCHANGED <<meta, blobs, tmp, nextId, faults, written, changed,
                 noSuchKey, now>>

\* ---------------------------------------------------------- specification
RequestIds == Ids \cup {BadId}

RequestFiles == Files \cup {NoFile}

Next ==
    \/ \E p \in Procs, auth \in BOOLEAN, file \in RequestFiles :
         UploadReq(p, auth, file)
    \/ \E p \in Procs : UploadSave(p)
    \/ \E p \in Procs : UploadPut(p)
    \/ \E p \in Procs : UploadInsert(p)
    \/ \E p \in Procs : UploadRollback(p)
    \/ \E p \in Procs, auth \in BOOLEAN, id \in RequestIds : GetReq(p, auth, id)
    \/ \E p \in Procs : GetFind(p)
    \/ \E p \in Procs, auth \in BOOLEAN, id \in RequestIds : DeleteReq(p, auth, id)
    \/ \E p \in Procs : DeleteFind(p)
    \/ \E p \in Procs : DeleteRemove(p)
    \/ \E p \in Procs : DeleteMeta(p)
    \/ \E p \in Procs, auth \in BOOLEAN, id \in RequestIds, file \in RequestFiles :
         ReplaceReq(p, auth, id, file)
    \/ \E p \in Procs : ReplaceFind(p)
    \/ \E p \in Procs : ReplaceRemove(p)
    \/ \E p \in Procs : ReplaceSave(p)
    \/ \E p \in Procs : ReplacePut(p)
    \/ \E p \in Procs : ReplaceUpdate(p)
    \/ \E p \in Procs : ReplaceRollback(p)
    \/ \E p \in Procs, auth \in BOOLEAN : HealthReq(p, auth)

Spec == Init /\ [][Next]_vars

\* ------------------------------------------------------------ observations
Done(p) == req[p].pc = "done"

Quiescent == \A p \in Procs : req[p].pc \in {"idle", "done"}

\* no store call has failed: no injected failure, no NoSuchKey answer
NoStoreFailure == faults = 0 /\ ~noSuchKey

\* the calls named name in the log of request r
CallsOf(r, name) == {i \in DOMAIN r.calls : r.calls[i].call = name}

Issued(r, name) == CallsOf(r, name) # {}

Succeeded(r, name) == \E i \in CallsOf(r, name) : r.calls[i].res = Nil

Failed(r, name) == \E i \in CallsOf(r, name) : r.calls[i].res # Nil

\* the object names the bucket holds for an identifier
KeysOf(id) == {k \in DOMAIN blobs : k.id = id}

\* the extension and the stem of a filename, read off its tokens
ExtensionOf(name) ==
    IF \E i \in 1..Len(name) : name[i] = Dot
    THEN LET d == CHOOSE i \in 1..Len(name) :
                    /\ name[i] = Dot
                    /\ \A j \in (i + 1)..Len(name) : name[j] # Dot
         IN  [i \in 1..(Len(name) - d + 1) |-> name[d + i - 1]]
    ELSE <<>>

StemOf(name) == [i \in 1..(Len(name) - Len(ExtensionOf(name))) |-> name[i]]

PngExt == <<Dot, "png">>

JpgExt == <<Dot, "jpg">>

\* ------------------------------------------------------------------ claims
\* C1: two-store consistency.  Whenever no operation is in flight and no
\* store call has failed, an identifier has a metadata record exactly when
\* the bucket holds a blob under id + extension of the file last uploaded or
\* replaced for it, and the bucket holds no other blob of that identifier.
C1_TwoStoreConsistency ==
    (Quiescent /\ NoStoreFailure) =>
        \A id \in Ids :
            IF meta[id] # NoDoc
            THEN KeysOf(id) =
                     {ObjectName(id, ExtensionOf(written[id].file.Filename))}
            ELSE KeysOf(id) = {}

\* C2: key agreement.  For every record written by Upload or Replace, the
\* object name Delete and Replace compute from the stored record is the name
\* id + extension under which the blob was written.
C2_KeyAgreement ==
    \A id \in Ids :
        meta[id] # NoDoc =>
            StoredObjectName(id, meta[id]) =
                ObjectName(id, ExtensionOf(written[id].file.Filename))

\* C3: unknown identifier.  Get, Replace and Delete whose record lookup finds
\* no record answer 404.
C3_UnknownIdIs404 ==
    \A p \in Procs :
        LET r == req[p]
        IN  (/\ Done(p)
             /\ r.op \in {"get", "replace", "delete"}
             /\ Len(r.calls) = 1
             /\ r.calls[1].call = "find"
             /\ r.calls[1].res = ErrDocumentNotFound)
            => r.status = 404

\* C4: upload compensation.  When the blob put succeeded and the metadata
\* insert failed, Upload has issued one delete of the key it wrote; if that
\* delete succeeded the blob is gone; no record of the new id exists and the
\* answer is a server error.
C4_UploadCompensation ==
    \A p \in Procs :
        LET r == req[p]
        IN  (Done(p) /\ r.op = "upload" /\ Succeeded(r, "put")
                /\ Failed(r, "insert"))
            => /\ Cardinality(CallsOf(r, "remove")) = 1
               /\ \A i \in CallsOf(r, "remove") :
                    /\ \E j \in CallsOf(r, "put") : r.calls[j].obj = r.calls[i].obj
                    /\ r.calls[i].res = Nil => r.calls[i].obj \notin DOMAIN blobs
               /\ meta[r.id] = NoDoc
               /\ r.status = 500

C4_Witness ==
    \E p \in Procs :
        /\ Done(p) /\ req[p].op = "upload"
        /\ Succeeded(req[p], "put") /\ Failed(req[p], "insert")
        /\ Succeeded(req[p], "remove")
        /\ KeysOf(req[p].id) = {}

\* C5: replace changes extension.  After a successful Replace with a .jpg
\* file of a record whose blob was written as id.png, the bucket holds
\* nothing under id.png, holds id.jpg, and the record (what Get returns)
\* has the same id and the new file's size and content type.
C5_ReplaceChangesExtension ==
    \A p \in Procs :
        LET r == req[p]
        IN  (/\ Quiescent /\ Done(p) /\ r.op = "replace" /\ r.status = 200
             /\ ExtensionOf(r.file.Filename) = JpgExt
             /\ r.doc.URL.object = ObjectName(r.id, PngExt)
             /\ meta[r.id] # NoDoc /\ meta[r.id].URL = r.url)
            => /\ ObjectName(r.id, PngExt) \notin DOMAIN blobs
               /\ ObjectName(r.id, JpgExt) \in DOMAIN blobs
               /\ meta[r.id].ID = r.id
               /\ meta[r.id].FileSize = r.file.Size
               /\ meta[r.id].ContentType = r.file.ContentType

\* C6: idempotent blob delete.  A Delete whose blob delete was answered
\* not-found by the store still deletes the metadata record and answers 200.
C6_DeleteToleratesAbsentBlob ==
    \A p \in Procs :
        LET r == req[p]
        IN  (/\ Done(p) /\ r.op = "delete"
             /\ \E i \in CallsOf(r, "remove") : r.calls[i].res = ErrStorageNotFound)
            => Succeeded(r, "delete") /\ r.status = 200

\* C7: concurrent double delete.  Of two finished Delete calls on the same
\* identifier, at least one of which found the record, with no store
\* failure, one answered 200 and the other 404.
C7_DoubleDelete ==
    \A p, q \in Procs :
        (/\ p # q /\ Done(p) /\ Done(q) /\ NoStoreFailure
         /\ req[p].op = "delete" /\ req[q].op = "delete"
         /\ req[p].id = req[q].id
         /\ Succeeded(req[p], "find"))
        => {req[p].status, req[q].status} = {200, 404}

\* C8: upload validation gate.  An Upload that reached the handler with a
\* file whose lowercase extension is outside the extension allow-list, or
\* whose sniffed type is outside the type allow-list, is answered 400 with no
\* staging file, no blob put and no metadata insert; a bad extension is
\* decided without sniffing the content.
C8_UploadGate ==
    \A p \in Procs :
        LET r == req[p]
            lower == [i \in 1..Len(ExtensionOf(r.file.Filename)) |->
                        ToLowerTok(ExtensionOf(r.file.Filename)[i])]
        IN  (r.op = "upload" /\ r.auth /\ r.file # NoFile)
            => /\ lower \notin allowedExtensions
                    => /\ Done(p) /\ r.status = 400 /\ r.calls = <<>>
                       /\ ~r.sniffed
               /\ (lower \in allowedExtensions
                     /\ DetectContentType(r.file.Data) \notin allowedTypes)
                    => Done(p) /\ r.status = 400 /\ r.calls = <<>>

C8_Witness ==
    /\ \E p \in Procs :
         /\ Done(p) /\ req[p].op = "upload" /\ req[p].file = NotesTxt
         /\ req[p].status = 400
    /\ \E p \in Procs :
         /\ Done(p) /\ req[p].op = "upload" /\ req[p].file = FakeJPG
         /\ req[p].status = 400

\* C9: upload blob-write failure.  When the blob put of an Upload failed the
\* Upload has returned an error, issued no metadata insert, and no record of
\* the generated id exists.
C9_UploadPutFailure ==
    \A p \in Procs :
        LET r == req[p]
        IN  (r.op = "upload" /\ Failed(r, "put"))
            => /\ Done(p) /\ r.status = 500 /\ r.err # Nil
               /\ ~Issued(r, "insert")
               /\ meta[r.id] = NoDoc

C9_Witness ==
    \E p \in Procs :
        /\ Done(p) /\ req[p].op = "upload" /\ Failed(req[p], "put")
        /\ req[p].status = 500

\* C10: round trip.  A Get answered 200 for an identifier that no Replace or
\* Delete has written since its Upload returns the id, the stem of the
\* uploaded filename, the declared size and content type of the uploaded
\* file, and the url the Upload returned.
C10_RoundTrip ==
    \A p \in Procs :
        LET r == req[p]
        IN  (Done(p) /\ r.op = "get" /\ r.status = 200 /\ r.fresh)
            => /\ written[r.id] # NoDoc
               /\ r.doc.ID = r.id
               /\ r.doc.OriginalName = StemOf(written[r.id].first.file.Filename)
               /\ r.doc.FileSize = written[r.id].first.file.Size
               /\ r.doc.ContentType = written[r.id].first.file.ContentType
               /\ r.doc.URL = written[r.id].first.url

C10_Witness ==
    \E p \in Procs :
        /\ Done(p) /\ req[p].op = "get" /\ req[p].status = 200 /\ req[p].fresh
        /\ req[p].doc.OriginalName = <<"photo">>

\* ---------------------------------------------------- further observations
\* process p takes a step from pc a to pc b
Moves(p, a, b) == req[p].pc = a /\ req'[p].pc = b

\* the identifiers that have a record
Records(m) == {i \in Ids : m[i] # NoDoc}

IsMutation(r) == r.op \in {"upload", "replace"}

\* the old-blob delete of a Replace is its second call
OldRemoveAnswered(r, res) ==
    /\ r.op = "replace" /\ Len(r.calls) >= 2
    /\ r.calls[2].call = "remove" /\ r.calls[2].res = res

\* the lowercase extension of the file of a request
LowerExtOf(r) ==
    [i \in 1..Len(ExtensionOf(r.file.Filename)) |->
        ToLowerTok(ExtensionOf(r.file.Filename)[i])]

\* C11: identifier immutability.  Every record carries the id it is stored
\* under, no step changes the id of a record, and the step that completes a
\* successful Replace writes the new file's name, size, content type, url and
\* a new timestamp into the record of that id, leaving the set of records and
\* every other record as they were.
C11_IdImmutable ==
    /\ [](\A id \in Ids : meta[id] # NoDoc => meta[id].ID = id)
    /\ [][\A p \in Procs :
            (Moves(p, "r_update", "done") /\ req'[p].status = 200)
            => LET r == req[p]
               IN  /\ Records(meta') = Records(meta)
                   /\ \A i \in Ids \ {r.id} : meta'[i] = meta[i]
                   /\ meta'[r.id] =
                        FileMetadata(r.id, StemOf(r.file.Filename), r.file.Size,
                                     r.file.ContentType, r.date, r.url)
                   /\ meta'[r.id].UploadDate # meta[r.id].UploadDate]_vars

C11_Witness ==
    \E p \in Procs :
        /\ Done(p) /\ req[p].op = "replace" /\ req[p].status = 200
        /\ meta[req[p].id] # NoDoc
        /\ meta[req[p].id].ID = req[p].id
        /\ meta[req[p].id].URL = req[p].url
        /\ meta[req[p].id].UploadDate = req[p].date
        /\ req[p].doc.UploadDate # req[p].date

\* C12: staging cleanup.  When an Upload or Replace that called
\* saveUploadedFile returns, no file exists at its staging path.
C12_StagingCleanup ==
    [][\A p \in Procs :
         (/\ req[p].pc # "done" /\ req'[p].pc = "done"
          /\ IsMutation(req'[p]) /\ Issued(req'[p], "stage"))
         => req'[p].localPath \notin DOMAIN tmp']_vars

C14_GetIsPure ==
    [][\A p \in Procs :
         (req'[p] # req[p] /\ req'[p].op = "get")
         => /\ meta' = meta /\ blobs' = blobs /\ tmp' = tmp
            /\ Moves(p, "g_find", "done")
                 => /\ Succeeded(req'[p], "find")
                        => /\ meta[req[p].id] # NoDoc
                           /\ req'[p].doc = meta[req[p].id]
                           /\ req'[p].status = 200
                    /\ req'[p].status = 200 => Succeeded(req'[p], "find")]_vars

C14_Witness ==
    \E p \in Procs :
        /\ Done(p) /\ req[p].op = "get" /\ req[p].status = 200
        /\ req[p].doc = meta[req[p].id]
        /\ blobs # Empty

\* C15: Replace validation gate.  A Replace that reached the handler with
\* a well-formed id and a file whose lowercase extension is outside the
\* extension allow-list, or whose sniffed type is outside Replace's type
\* allow-list, is answered 400 without any store call.
C15_ReplaceGate ==
    \A p \in Procs :
        LET r == req[p]
        IN  (/\ r.op = "replace" /\ r.auth /\ r.file # NoFile
             /\ \/ LowerExtOf(r) \notin allowedExtensions
                \/ DetectContentType(r.file.Data) \notin replaceAllowedTypes)
            => Done(p) /\ r.status = 400 /\ r.calls = <<>>

\* C16: Replace ordering on old-blob delete failure.  A Replace whose
\* old-blob delete failed with a store error has returned an error after
\* that call, with no staging, no blob put and no metadata update, and the
\* step that fails leaves the metadata store unchanged.
C16_OldDeleteFailure ==
    /\ [](\A p \in Procs :
            OldRemoveAnswered(req[p], ErrDelete)
            => /\ Done(p) /\ req[p].status = 500
               /\ Len(req[p].calls) = 2
               /\ ~Issued(req[p], "put") /\ ~Issued(req[p], "update"))
    /\ [][\A p \in Procs :
            (req[p].pc = "r_remove" /\ req'[p] # req[p]
                /\ OldRemoveAnswered(req'[p], ErrDelete))
            => meta' = meta]_vars

C16_Witness ==
    \E p \in Procs :
        /\ Done(p) /\ OldRemoveAnswered(req[p], ErrDelete)
        /\ meta[req[p].id] = req[p].doc

\* C17: Replace tolerates an absent old blob.  A Replace whose old-blob
\* delete was answered not-found goes on to stage the new file.
C17_ReplaceToleratesAbsentBlob ==
    \A p \in Procs :
        (OldRemoveAnswered(req[p], ErrStorageNotFound) /\ Len(req[p].calls) = 2)
        => req[p].pc = "r_save"

\* C18: Replace compensation.  A Replace whose blob put succeeded and whose
\* metadata update failed has issued, after the update, one delete of the
\* object name it put and has returned an error; when that delete succeeds
\* the bucket holds nothing under that name as Replace returns.
C18_ReplaceCompensation ==
    /\ [](\A p \in Procs :
            LET r == req[p]
            IN  (Done(p) /\ r.op = "replace" /\ Succeeded(r, "put")
                    /\ Failed(r, "update"))
                => /\ r.status = 500 /\ r.err # Nil
                   /\ Len(r.calls) = 6
                   /\ r.calls[6].call = "remove"
                   /\ r.calls[6].obj = r.calls[4].obj
                   /\ r.calls[4].call = "put")
    /\ [][\A p \in Procs :
            (Moves(p, "r_rollback", "done")
                /\ req'[p].calls[Len(req'[p].calls)].res = Nil)
            => req'[p].calls[4].obj \notin DOMAIN blobs']_vars

C18_Witness ==
    \E p \in Procs :
        /\ Done(p) /\ req[p].op = "replace" /\ Succeeded(req[p], "put")
        /\ Len(req[p].calls) = 6
        /\ req[p].calls[5].res = ErrDocumentNotFound
        /\ req[p].calls[6].res = Nil
        /\ req[p].calls[6].obj \notin DOMAIN blobs

\* C19: Replace new-blob failure.  A Replace whose blob put failed has
\* returned an error and issued no metadata update, and the step that fails
\* leaves the metadata store unchanged.
C19_ReplacePutFailure ==
    /\ [](\A p \in Procs :
            (req[p].op = "replace" /\ Failed(req[p], "put"))
            => /\ Done(p) /\ req[p].status = 500 /\ req[p].err # Nil
               /\ ~Issued(req[p], "update"))
    /\ [][\A p \in Procs :
            (req[p].pc = "r_put" /\ req'[p] # req[p] /\ Failed(req'[p], "put"))
            => meta' = meta]_vars

C19_Witness ==
    \E p \in Procs :
        /\ Done(p) /\ req[p].op = "replace" /\ Failed(req[p], "put")
        /\ meta[req[p].id] = req[p].doc

\* C20: blob before metadata.  In every request a metadata insert or update
\* is preceded by a successful blob put of the same request, and every step
\* that writes a record is taken by a request whose put has succeeded for
\* the object the record points to.
C20_BlobBeforeMetadata ==
    /\ [](\A p \in Procs :
            \A i \in CallsOf(req[p], "insert") \cup CallsOf(req[p], "update") :
                \E j \in 1..(i - 1) :
                    /\ req[p].calls[j].call = "put"
                    /\ req[p].calls[j].res = Nil)
    /\ [][\A id \in Ids :
            (meta'[id] # meta[id] /\ meta'[id] # NoDoc)
            => \E p \in Procs :
                 /\ req'[p] # req[p] /\ req[p].id = id
                 /\ \E j \in CallsOf(req[p], "put") :
                      /\ req[p].calls[j].res = Nil
                      /\ PublicURL(req[p].calls[j].obj) = meta'[id].URL]_vars

C20_Witness ==
    \E p \in Procs :
        /\ Done(p) /\ req[p].op = "upload" /\ req[p].cancelled
        /\ Succeeded(req[p], "put") /\ Failed(req[p], "insert")

\* the names of the calls of request r, in the order they were issued
CallNames(r) == [i \in 1..Len(r.calls) |-> r.calls[i].call]

IsPrefix(s, t) == Len(s) <= Len(t) /\ \A i \in 1..Len(s) : s[i] = t[i]

\* the store and file-system calls of an operation, in program order
Program(op) ==
    CASE op = "upload" -> <<"stage", "put", "insert", "remove">>
      [] op = "replace" -> <<"find", "remove", "stage", "put", "update", "remove">>
      [] op = "delete" -> <<"find", "remove", "delete">>
      [] op = "get" -> <<"find">>
      [] OTHER -> <<>>

\* the index of the metadata write of an Upload or Replace in its program
WriteIndex(op) == IF op = "upload" THEN 3 ELSE 5

\* C21: no retry, single compensation.  The calls of a request are a prefix
\* of the operation's program, so each call is issued at most once; a failed
\* call is the last call of the request unless it is the metadata write of
\* an Upload or Replace, which is followed by exactly one blob delete of the
\* object the request put; and the request then answers 500 with the error
\* of the metadata write, whatever the compensating delete answered.
C21_NoRetry ==
    \A p \in Procs :
        LET r == req[p]
            w == WriteIndex(r.op)
        IN  /\ IsPrefix(CallNames(r), Program(r.op))
            /\ \A i \in 1..(Len(r.calls) - 1) :
                  r.calls[i].res # Nil => (IsMutation(r) /\ i = w)
            /\ (Done(p) /\ IsMutation(r) /\ Len(r.calls) >= w
                    /\ r.calls[w].res # Nil)
               => /\ Len(r.calls) = w + 1
                  /\ r.calls[w + 1].call = "remove"
                  /\ r.calls[w + 1].obj = r.calls[w - 1].obj
                  /\ r.err = r.calls[w].res
                  /\ r.status = 500

C21_Witness ==
    \E p \in Procs :
        LET r == req[p]
        IN  /\ Done(p) /\ r.op = "upload" /\ Len(r.calls) = 4
            /\ r.calls[3].res # Nil
            /\ r.calls[4].res # Nil
            /\ r.calls[4].res # r.calls[3].res
            /\ r.err = r.calls[3].res

\* Replace requests p and q on one identifier, with different new extensions
\* and no store failure, both answered 200, that ran concurrently: q put its
\* blob before p did and q's update is the one the record shows, so p's put
\* and update ran between q's put and q's update
RacedReplaces(p, q) ==
    /\ p # q /\ Quiescent /\ NoStoreFailure
    /\ req[p].op = "replace" /\ req[q].op = "replace"
    /\ req[p].status = 200 /\ req[q].status = 200
    /\ req[p].id = req[q].id
    /\ ExtensionOf(req[p].file.Filename) # ExtensionOf(req[q].file.Filename)
    /\ req[q].date < req[p].date
    /\ meta[req[q].id] # NoDoc
    /\ meta[req[q].id].URL = req[q].url

\* C22: concurrent Replace race.  When two Replace calls on one identifier
\* with different new extensions interleave so that the call that put first
\* updates last, both succeed, the record is the one the last update wrote,
\* and the bucket still holds the other call's blob under a key no record
\* refers to.
C22_ReplaceRace ==
    \A p, q \in Procs :
        RacedReplaces(p, q)
        => /\ meta[req[q].id] =
                 NewMetadata(req[q].id, req[q].file, req[q].date, req[q].url)
           /\ req[p].objectName \in DOMAIN blobs
           /\ blobs[req[p].objectName].Data = req[p].file.Data
           /\ \A i \in Ids :
                 meta[i] # NoDoc => meta[i].URL # PublicURL(req[p].objectName)

C22_Witness ==
    \E p, q \in Procs :
        /\ RacedReplaces(p, q)
        /\ req[p].objectName \in DOMAIN blobs
        /\ req[p].objectName # req[q].objectName
        /\ meta[req[q].id].URL = PublicURL(req[q].objectName)

\* request r has staged its file and not yet returned: the deferred
\* os.Remove has not run
Staged(r) ==
    r.pc \in {"u_put", "u_insert", "u_rollback", "r_put", "r_update", "r_rollback"}

\* C23: staging isolation.  While a request has its file staged, no step of
\* another request changes or removes that staging file, and a put that
\* succeeds stores the bytes of the file of its own request.
C23_StagingIsolation ==
    /\ [][\A p \in Procs :
            (Staged(req[p]) /\ req'[p] = req[p]
                /\ req[p].localPath \in DOMAIN tmp)
            => /\ req[p].localPath \in DOMAIN tmp'
               /\ tmp'[req[p].localPath] = tmp[req[p].localPath]]_vars
    /\ [][\A p \in Procs :
            (Moves(p, "r_put", "r_update") \/ Moves(p, "u_put", "u_insert"))
            => blobs'[req[p].objectName].Data = req[p].file.Data]_vars

\* the blobs a bucket b holds for an identifier
BlobsOfId(b, id) == [k \in {x \in DOMAIN b : x.id = id} |-> b[k]]

\* C24: per-identifier frame.  A step of a request on identifier A leaves
\* the record and the blobs of every other identifier as they were; the put
\* of an Upload writes a key the bucket did not hold, for an identifier
\* without blobs, and its insert writes a record that did not exist.
C24_Frame ==
    /\ [][\A p \in Procs :
            req'[p] # req[p]
            => \A B \in Ids \ {req'[p].id} :
                 /\ meta'[B] = meta[B]
                 /\ BlobsOfId(blobs', B) = BlobsOfId(blobs, B)]_vars
    /\ [][\A p \in Procs :
            /\ Moves(p, "u_put", "u_insert") => KeysOf(req[p].id) = {}
            /\ (Moves(p, "u_insert", "done") /\ req'[p].status = 200)
               => meta[req[p].id] = NoDoc]_vars

C24_Witness ==
    \E p \in Procs :
        /\ Done(p) /\ req[p].op = "delete" /\ req[p].status = 200
        /\ meta[req[p].id] = NoDoc
        /\ \E B \in Ids \ {req[p].id} : meta[B] # NoDoc /\ KeysOf(B) # {}

\* C25: Replace racing Delete.  A Replace whose lookup found the record and
\* whose update found none (a Delete completed in between) answers with an
\* error, and once nothing is in flight, with no store failure, the
\* identifier has no record and the bucket holds no blob for it.
C25_ReplaceVsDelete ==
    \A p \in Procs :
        LET r == req[p]
        IN  (/\ Done(p) /\ r.op = "replace" /\ Len(r.calls) >= 5
             /\ r.calls[1].res = Nil
             /\ r.calls[5].res = ErrDocumentNotFound
             /\ Quiescent /\ NoStoreFailure)
            => /\ r.status # 200 /\ r.err # Nil
               /\ meta[r.id] = NoDoc
               /\ KeysOf(r.id) = {}

\* C26: Delete is all-or-nothing on a failed blob delete.  A Delete whose
\* blob delete failed with a store error has returned 500 without issuing
\* the metadata delete, and the failing step leaves every record as it was.
C26_DeleteAllOrNothing ==
    /\ [](\A p \in Procs :
            LET r == req[p]
            IN  (r.op = "delete" /\ Len(r.calls) >= 2
                    /\ r.calls[2].res = ErrDelete)
                => /\ Done(p) /\ r.status = 500 /\ r.err = ErrDelete
                   /\ ~Issued(r, "delete"))
    /\ [][\A p \in Procs :
            (req[p].pc = "d_remove" /\ req'[p] # req[p]
                /\ req'[p].calls[2].res = ErrDelete)
            => meta' = meta]_vars

C26_Witness ==
    \E p \in Procs :
        LET r == req[p]
        IN  /\ Done(p) /\ r.op = "delete" /\ Len(r.calls) = 2
            /\ r.calls[2].res = ErrDelete
            /\ r.doc # NoDoc /\ meta[r.id] = r.doc

\* C27: cancellation between the two writes.  An Upload whose context was
\* cancelled after its put succeeded, so that its insert failed, answers
\* with an error, leaves no record, and its blob is not in the bucket.
C27_CancelBetweenWrites ==
    \A p \in Procs :
        LET r == req[p]
        IN  (/\ Done(p) /\ r.op = "upload" /\ r.cancelled
             /\ Len(r.calls) >= 3
             /\ r.calls[2].res = Nil /\ r.calls[3].res # Nil)
            => /\ r.status # 200 /\ r.err # Nil
               /\ meta[r.id] = NoDoc
               /\ r.objectName \notin DOMAIN blobs

====
